---- MODULE Spec2Model ----
(***************************************************************************)
(* The backend selection engine of the load balancer (src/src/main.rs):    *)
(* the pool with health, weight and smooth-weighted accumulator, the three *)
(* selection policies, the health tracker, the admin setters, the request  *)
(* handler and the health-check loop that share the pool behind one lock.  *)
(***************************************************************************)
EXTENDS Integers, Sequences, FiniteSets, TLC

\* ------------------------------------------------------------------ bounds
\* Largest failure count the model lets a backend accumulate (u32 in the code).
MaxFailCount == 2
\* Largest magnitude of current_weight the model follows (i32 in the code).
MaxAcc == 12
\* Number of select results the construction trace records.
MaxHist == 10
\* A max_failures threshold below MaxFailCount, so that failure counts pass it.
LowMaxFailures == 1
\* Clock readings per second: Instant::now() is finer than the whole seconds
\* that as_secs() keeps.
TicksPerSec == 2
\* Last clock reading the model follows, in ticks.
MaxTime == 2

\* ------------------------------------------------------- program constants
DefaultWeight == 1
DefaultSessionTimeout == 300
WeightA == 5
WeightB == 3
WeightC == 2
ConfiguredMaxFailures == 3

\* ------------------------------------------------------------------ values
None == "None"
NoClient == "NoClient"
Clients == {"c1"}
\* The client whose sessions are followed, and another one.
StickyClients == Clients \cup {"c2"}
RoundRobin == "RoundRobin"
WeightedRoundRobin == "WeightedRoundRobin"
StickySession == "StickySession"
LoadBalancingStrategy == {RoundRobin, WeightedRoundRobin, StickySession}

Healthy == [tag |-> "Healthy", failures |-> 0]
Unhealthy(n) == [tag |-> "Unhealthy", failures |-> n]
IsHealthy(b) == b.health_status.tag = "Healthy"

Backend(url, weight) ==
    [url |-> url, health_status |-> Healthy, weight |-> weight, current_weight |-> 0]

\* `weight as i32`: every weight the model uses is below 2^31, where the cast
\* keeps the value; MaxAcc keeps the i32 sums far from overflow.

\* ------------------------------------------------------------ constructors
RECURSIVE new_backends(_)
new_backends(backend_urls) ==
    IF backend_urls = << >> THEN << >>
    ELSE <<Backend(Head(backend_urls), DefaultWeight)>> \o new_backends(Tail(backend_urls))

new(backend_urls, max_failures) ==
    [backends |-> new_backends(backend_urls),
     current_idx |-> 0,
     max_failures |-> max_failures,
     strategy |-> RoundRobin,
     sessions |-> << >>,
     session_timeout |-> DefaultSessionTimeout]

RECURSIVE new_weighted_backends(_)
new_weighted_backends(backend_with_weights) ==
    IF backend_with_weights = << >> THEN << >>
    ELSE <<Backend(Head(backend_with_weights)[1], Head(backend_with_weights)[2])>>
         \o new_weighted_backends(Tail(backend_with_weights))

new_weighted(backend_with_weights, max_failures) ==
    [backends |-> new_weighted_backends(backend_with_weights),
     current_idx |-> 0,
     max_failures |-> max_failures,
     strategy |-> WeightedRoundRobin,
     sessions |-> << >>,
     session_timeout |-> DefaultSessionTimeout]

\* ------------------------------------------------------------------ lookup
\* iter().find(|b| b.url == url): index of the first backend with that url, 0 if none.
RECURSIVE FindFrom(_, _, _)
FindFrom(bs, url, i) ==
    IF i > Len(bs) THEN 0
    ELSE IF bs[i].url = url THEN i
    ELSE FindFrom(bs, url, i + 1)

Find(bs, url) == FindFrom(bs, url, 1)

\* ------------------------------------------------------------------ admin
\* set_strategy starting the new policy from a clean slate: cursor and sessions reset.
set_strategy_reset(self, strategy) ==
    [self EXCEPT !.strategy = strategy, !.current_idx = 0, !.sessions = << >>]

set_strategy(self, strategy) == [self EXCEPT !.strategy = strategy]

\* set_weight adding the backend when the pool has none with that url.
set_weight_upsert(self, backend_url, weight) ==
    LET i == Find(self.backends, backend_url)
    IN  IF i # 0 THEN [self EXCEPT !.backends[i].weight = weight]
        ELSE [self EXCEPT !.backends = Append(@, Backend(backend_url, weight))]

set_weight(self, backend_url, weight) ==
    LET i == Find(self.backends, backend_url)
    IN  IF i # 0 THEN [self EXCEPT !.backends[i].weight = weight] ELSE self

set_session_timeout(self, timeout) == [self EXCEPT !.session_timeout = timeout]

\* ---------------------------------------------------------------- sessions
\* as_secs rounding a started second up.
as_secs_up(ticks) == (ticks + TicksPerSec - 1) \div TicksPerSec

\* now.duration_since(last_seen).as_secs(): the whole seconds of a span of ticks.
as_secs(ticks) == ticks \div TicksPerSec

\* clean_expired_session keeping every entry (the sweep is missing).
clean_expired_session_none(self, t) == self

clean_expired_session(self, t) ==
    LET keep == {c \in DOMAIN self.sessions :
                    as_secs(t - self.sessions[c].last_seen) < self.session_timeout}
    IN  [self EXCEPT !.sessions = [c \in keep |-> self.sessions[c]]]

\* ------------------------------------------------------------- round robin
\* RoundRobinLoop giving up at the first Unhealthy entry.
RoundRobinLoopOnce(self, start_idx, examined) ==
    LET nxt == (self.current_idx + 1) % Len(self.backends)
    IN  IF IsHealthy(self.backends[self.current_idx + 1])
        THEN [lb |-> [self EXCEPT !.current_idx = nxt],
              ret |-> self.backends[self.current_idx + 1].url,
              examined |-> examined + 1]
        ELSE [lb |-> [self EXCEPT !.current_idx = nxt], ret |-> None,
              examined |-> examined + 1]

\* RoundRobinLoop leaving the cursor on the entry it returns.
RECURSIVE RoundRobinLoopNoAdvance(_, _, _)
RoundRobinLoopNoAdvance(self, start_idx, examined) ==
    LET nxt == (self.current_idx + 1) % Len(self.backends)
    IN  IF IsHealthy(self.backends[self.current_idx + 1])
        THEN [lb |-> self,
              ret |-> self.backends[self.current_idx + 1].url,
              examined |-> examined + 1]
        ELSE IF nxt = start_idx
        THEN [lb |-> [self EXCEPT !.current_idx = nxt], ret |-> None,
              examined |-> examined + 1]
        ELSE RoundRobinLoopNoAdvance([self EXCEPT !.current_idx = nxt], start_idx,
                                     examined + 1)

\* One iteration of the loop of get_next_backend_round_robin; examined counts
\* the pool entries looked at so far.
RECURSIVE RoundRobinLoop(_, _, _)
RoundRobinLoop(self, start_idx, examined) ==
    LET nxt == (self.current_idx + 1) % Len(self.backends)
    IN  IF IsHealthy(self.backends[self.current_idx + 1])
        THEN [lb |-> [self EXCEPT !.current_idx = nxt],
              ret |-> self.backends[self.current_idx + 1].url,
              examined |-> examined + 1]
        ELSE IF nxt = start_idx
        THEN [lb |-> [self EXCEPT !.current_idx = nxt], ret |-> None,
              examined |-> examined + 1]
        ELSE RoundRobinLoop([self EXCEPT !.current_idx = nxt], start_idx, examined + 1)

get_next_backend_round_robin(self) ==
    IF Len(self.backends) = 0
    THEN [lb |-> self, ret |-> None, examined |-> 0]
    ELSE RoundRobinLoop(self, self.current_idx, 0)

\* ---------------------------------------------------------------- weighted
\* WeightedPass with ties going to the later entry (>= for >).
RECURSIVE WeightedPassLastWins(_, _, _, _, _)
WeightedPassLastWins(bs, i, total, best_idx, best_weight) ==
    IF i > Len(bs)
    THEN [backends |-> bs, total |-> total, best_idx |-> best_idx,
          best_weight |-> best_weight]
    ELSE IF IsHealthy(bs[i])
    THEN LET cw == bs[i].current_weight + bs[i].weight
             bs2 == [bs EXCEPT ![i].current_weight = cw]
         IN  IF cw >= best_weight
             THEN WeightedPassLastWins(bs2, i + 1, total + bs[i].weight, i - 1, cw)
             ELSE WeightedPassLastWins(bs2, i + 1, total + bs[i].weight, best_idx,
                                       best_weight)
    ELSE WeightedPassLastWins(bs, i + 1, total, best_idx, best_weight)

\* WeightedPass adding the weight of Unhealthy entries to their accumulators too.
RECURSIVE WeightedPassAll(_, _, _, _, _)
WeightedPassAll(bs, i, total, best_idx, best_weight) ==
    IF i > Len(bs)
    THEN [backends |-> bs, total |-> total, best_idx |-> best_idx,
          best_weight |-> best_weight]
    ELSE LET cw == bs[i].current_weight + bs[i].weight
             bs2 == [bs EXCEPT ![i].current_weight = cw]
         IN  IF IsHealthy(bs[i]) /\ cw > best_weight
             THEN WeightedPassAll(bs2, i + 1, total + bs[i].weight, i - 1, cw)
             ELSE WeightedPassAll(bs2, i + 1,
                                  IF IsHealthy(bs[i]) THEN total + bs[i].weight ELSE total,
                                  best_idx, best_weight)

\* The for loop of get_next_backend_weighted from entry i on (1-based here,
\* best_idx is the code's 0-based index).
RECURSIVE WeightedPass(_, _, _, _, _)
WeightedPass(bs, i, total, best_idx, best_weight) ==
    IF i > Len(bs)
    THEN [backends |-> bs, total |-> total, best_idx |-> best_idx,
          best_weight |-> best_weight]
    ELSE IF IsHealthy(bs[i])
    THEN LET cw == bs[i].current_weight + bs[i].weight
             bs2 == [bs EXCEPT ![i].current_weight = cw]
         IN  IF cw > best_weight
             THEN WeightedPass(bs2, i + 1, total + bs[i].weight, i - 1, cw)
             ELSE WeightedPass(bs2, i + 1, total + bs[i].weight, best_idx,
                               best_weight)
    ELSE WeightedPass(bs, i + 1, total, best_idx, best_weight)

\* get_next_backend_weighted leaving the winner's accumulator as the pass left it
\* (the subtraction of the total is missing).
get_next_backend_weighted_keep(self) ==
    IF ~ \E i \in 1..Len(self.backends) : IsHealthy(self.backends[i])
    THEN [lb |-> self, ret |-> None, examined |-> 0]
    ELSE LET p == WeightedPass(self.backends, 1, 0, 0, -1)
         IN  IF p.best_weight < 0
             THEN [lb |-> [self EXCEPT !.backends = p.backends], ret |-> None,
                   examined |-> 0]
             ELSE [lb |-> [self EXCEPT !.backends = p.backends],
                   ret |-> p.backends[p.best_idx + 1].url,
                   examined |-> 0]

get_next_backend_weighted(self) ==
    IF ~ \E i \in 1..Len(self.backends) : IsHealthy(self.backends[i])
    THEN [lb |-> self, ret |-> None, examined |-> 0]
    ELSE LET p == WeightedPass(self.backends, 1, 0, 0, -1)
         IN  IF p.best_weight < 0
             THEN [lb |-> [self EXCEPT !.backends = p.backends], ret |-> None,
                   examined |-> 0]
             ELSE [lb |-> [self EXCEPT !.backends =
                              [p.backends EXCEPT ![p.best_idx + 1].current_weight =
                                                      @ - p.total]],
                   ret |-> p.backends[p.best_idx + 1].url,
                   examined |-> 0]

\* ------------------------------------------------------------------ sticky
SessionInfo(url, t) == [backend_url |-> url, last_seen |-> t]

SessionInsert(sessions, c, info) ==
    [x \in DOMAIN sessions \cup {c} |-> IF x = c THEN info ELSE sessions[x]]

SessionRemove(sessions, c) == [x \in DOMAIN sessions \ {c} |-> sessions[x]]

\* SessionHit without the health check on the pinned backend.
SessionHitAnyHealth(self, client_ip) ==
    /\ client_ip \in DOMAIN self.sessions
    /\ Find(self.backends, self.sessions[client_ip].backend_url) # 0

\* The lookup of get_backend_for_client after the expiry sweep: the client has an
\* entry whose backend exists and is Healthy.
SessionHit(self, client_ip) ==
    /\ client_ip \in DOMAIN self.sessions
    /\ Find(self.backends, self.sessions[client_ip].backend_url) # 0
    /\ IsHealthy(self.backends[Find(self.backends, self.sessions[client_ip].backend_url)])

\* get_backend_for_client that does not record the fresh pick in the session table.
get_backend_for_client_forget(self, client_ip, t) ==
    LET s1 == clean_expired_session(self, t)
    IN  IF SessionHit(s1, client_ip)
        THEN [lb |-> [s1 EXCEPT !.sessions[client_ip].last_seen = t],
              ret |-> s1.sessions[client_ip].backend_url,
              examined |-> 0]
        ELSE LET s2 == [s1 EXCEPT !.sessions = SessionRemove(s1.sessions, client_ip)]
             IN  IF s2.strategy = RoundRobin
                 THEN get_next_backend_round_robin(s2)
                 ELSE get_next_backend_weighted(s2)

get_backend_for_client(self, client_ip, t) ==
    LET s1 == clean_expired_session(self, t)
    IN  IF SessionHit(s1, client_ip)
        THEN [lb |-> [s1 EXCEPT !.sessions[client_ip].last_seen = t],
              ret |-> s1.sessions[client_ip].backend_url,
              examined |-> 0]
        ELSE LET s2 == [s1 EXCEPT !.sessions = SessionRemove(s1.sessions, client_ip)]
                 r == IF s2.strategy = RoundRobin
                      THEN get_next_backend_round_robin(s2)
                      ELSE get_next_backend_weighted(s2)
             IN  IF r.ret # None
                 THEN [r EXCEPT !.lb.sessions =
                          SessionInsert(r.lb.sessions, client_ip, SessionInfo(r.ret, t))]
                 ELSE r

\* get_next_backend that sweeps the expired sessions under every policy.
get_next_backend_sweep(self, client_ip, t) ==
    LET s1 == clean_expired_session(self, t)
    IN  IF s1.strategy = RoundRobin THEN get_next_backend_round_robin(s1)
        ELSE IF s1.strategy = WeightedRoundRobin THEN get_next_backend_weighted(s1)
        ELSE IF client_ip # NoClient THEN get_backend_for_client(s1, client_ip, t)
        ELSE get_next_backend_weighted(s1)

get_next_backend(self, client_ip, t) ==
    IF self.strategy = RoundRobin THEN get_next_backend_round_robin(self)
    ELSE IF self.strategy = WeightedRoundRobin THEN get_next_backend_weighted(self)
    ELSE IF client_ip # NoClient THEN get_backend_for_client(self, client_ip, t)
    ELSE get_next_backend_weighted(self)

\* ---------------------------------------------------------- health tracker
\* mark_unhealthy that does not count a failure of an already Unhealthy backend.
mark_unhealthy_once(self, backend_url) ==
    LET i == Find(self.backends, backend_url)
    IN  IF i = 0 THEN self
        ELSE IF IsHealthy(self.backends[i])
        THEN [self EXCEPT !.backends[i].health_status = Unhealthy(1)]
        ELSE self

\* mark_unhealthy that starts the count of a Healthy backend at 0.
mark_unhealthy_from_zero(self, backend_url) ==
    LET i == Find(self.backends, backend_url)
    IN  IF i = 0 THEN self
        ELSE IF IsHealthy(self.backends[i])
        THEN [self EXCEPT !.backends[i].health_status = Unhealthy(0)]
        ELSE [self EXCEPT !.backends[i].health_status =
                 Unhealthy(self.backends[i].health_status.failures + 1)]

mark_unhealthy(self, backend_url) ==
    LET i == Find(self.backends, backend_url)
    IN  IF i = 0 THEN self
        ELSE IF IsHealthy(self.backends[i])
        THEN [self EXCEPT !.backends[i].health_status = Unhealthy(1)]
        ELSE [self EXCEPT !.backends[i].health_status =
                 Unhealthy(self.backends[i].health_status.failures + 1)]

\* mark_healthy that restarts the accumulator of the backend it brings back.
mark_healthy_reset(self, backend_url) ==
    LET i == Find(self.backends, backend_url)
    IN  IF i = 0 THEN self
        ELSE IF IsHealthy(self.backends[i]) THEN self
        ELSE [self EXCEPT !.backends[i].health_status = Healthy,
                          !.backends[i].current_weight = 0]

\* mark_healthy that takes back one failure per call.
mark_healthy_gradual(self, backend_url) ==
    LET i == Find(self.backends, backend_url)
    IN  IF i = 0 THEN self
        ELSE IF IsHealthy(self.backends[i]) THEN self
        ELSE IF self.backends[i].health_status.failures = 1
        THEN [self EXCEPT !.backends[i].health_status = Healthy]
        ELSE [self EXCEPT !.backends[i].health_status =
                 Unhealthy(self.backends[i].health_status.failures - 1)]

mark_healthy(self, backend_url) ==
    LET i == Find(self.backends, backend_url)
    IN  IF i = 0 THEN self
        ELSE IF IsHealthy(self.backends[i]) THEN self
        ELSE [self EXCEPT !.backends[i].health_status = Healthy]

get_all_backends(self) == [i \in 1..Len(self.backends) |-> self.backends[i].url]

\* =================================================================== state
VARIABLES
    backends,         \* Vec<Backend>, in pool order
    current_idx,      \* round-robin cursor (0-based)
    max_failures,     \* configured threshold
    strategy,         \* current policy
    sessions,         \* client identity -> SessionInfo
    session_timeout,  \* seconds
    now,              \* Instant::now(), in ticks since construction
    last,             \* the most recent call: name, argument, result
    fails,            \* per pool entry: mark_unhealthy calls since its last mark_healthy
    hist,             \* the calls made since construction, while tracking
    tracking,         \* hist still holds every call since construction
    window,           \* winners of the latest weighted passes on an unchanged pool
    undisturbed,      \* no health or weight has changed since construction
    pinned,           \* per followed client: result and time of its latest sticky select
    lock,             \* the task holding the Mutex, or Free
    handlers,         \* per request task: position, client identity, chosen backend
    probe             \* the health_check task: position, snapshot, index into it

lbvars == <<backends, current_idx, max_failures, strategy, sessions, session_timeout>>
tracevars == <<hist, tracking, window, undisturbed, pinned>>
sysvars == <<lock, handlers, probe>>
vars == <<lbvars, now, last, fails, tracevars, sysvars>>

\* The LoadBalancer behind the Arc<Mutex<..>>.
Self ==
    [backends |-> backends, current_idx |-> current_idx, max_failures |-> max_failures,
     strategy |-> strategy, sessions |-> sessions, session_timeout |-> session_timeout]

Install(self) ==
    /\ backends' = self.backends
    /\ current_idx' = self.current_idx
    /\ max_failures' = self.max_failures
    /\ strategy' = self.strategy
    /\ sessions' = self.sessions
    /\ session_timeout' = self.session_timeout

\* ------------------------------------------------------------------ inputs
\* The urls a call names: those of the pool and one that is not in it.
Urls == {backends[i].url : i \in 1..Len(backends)} \cup {"X"}
WeightInputs == {0, 2}
TimeoutInputs == {0}

\* The pools of the general specification.
SmallPools == {new(<<"A", "B">>, LowMaxFailures), new(<< >>, LowMaxFailures)}

\* The pools of the literal scenarios.
ScenarioPools ==
    {new_weighted(<< <<"A", WeightA>>, <<"B", WeightB>>, <<"C", WeightC>> >>,
                  ConfiguredMaxFailures),
     new_weighted(<< <<"A", 1>>, <<"B", 2>> >>, ConfiguredMaxFailures),
     new(<<"A", "B", "C">>, ConfiguredMaxFailures)}

\* ------------------------------------------------------------ observations
AllHealthy(bs) == \A i \in 1..Len(bs) : IsHealthy(bs[i])

RECURSIVE SumWeights(_, _)
SumWeights(bs, i) == IF i > Len(bs) THEN 0 ELSE bs[i].weight + SumWeights(bs, i + 1)
TotalWeight(bs) == SumWeights(bs, 1)

\* The algorithm a select runs in the state self.
Algo(self, client_ip, t) ==
    IF self.strategy = RoundRobin THEN "round_robin"
    ELSE IF self.strategy = StickySession /\ client_ip # NoClient
            /\ SessionHit(clean_expired_session(self, t), client_ip)
    THEN "session"
    ELSE "weighted"

SameHealthAndWeight(bs1, bs2) ==
    \A i \in 1..Len(bs1) :
        bs1[i].health_status = bs2[i].health_status /\ bs1[i].weight = bs2[i].weight

LastN(s, n) == IF Len(s) <= n THEN s ELSE SubSeq(s, Len(s) - n + 1, Len(s))

WithinAcc(bs) ==
    \A i \in 1..Len(bs) : bs[i].current_weight <= MaxAcc /\ -bs[i].current_weight <= MaxAcc

NumSelects(h) == Cardinality({k \in 1..Len(h) : h[k][1] = "select"})

\* The record of a call: its name, argument and caller, the health its backend had
\* before it (mark_* calls), and for a select its result, the algorithm that ran and
\* the pool entries the round-robin loop examined.
Op(name, arg, by, was, ret, algo, examined) ==
    [op |-> name, arg |-> arg, by |-> by, was |-> was, ret |-> ret, algo |-> algo,
     examined |-> examined]

\* Stands for "no backend" where a health status is recorded.
NoHealth == [tag |-> "None", failures |-> 0]

Call(name, arg, by) == Op(name, arg, by, NoHealth, None, None, 0)

\* The health of the backend named url, NoHealth when the pool has no such backend.
HealthOf(bs, url) ==
    IF Find(bs, url) = 0 THEN NoHealth ELSE bs[Find(bs, url)].health_status

NoFails == [call |-> 0, forward |-> 0, probe |-> 0]

\* No sticky select of the client has returned a backend yet.
NoPin == [backend_url |-> None, last_seen |-> 0]

\* ------------------------------------------------------------------- tasks
Free == "Free"
Handlers == {"h1", "h2"}
Prober == "health_check"
\* The health_check task between two rounds: in sleep(interval), no snapshot, no
\* probe in flight.
NoOutcome == "none"
Sleeping ==
    [pc |-> "sleep", backends |-> << >>, i |-> 0, outcome |-> NoOutcome, overdue |-> FALSE]

\* What a request task has answered, or holds to answer: nothing yet, the
\* backend's response with its status, or one of the two 503 replies. The code
\* never looks at the backend's status; the model follows a non-2xx one.
NoReply == "none"
BackendStatuses == {"500 Internal Server Error"}
ServiceUnavailable == "503 Service Unavailable"
NoHealthyBackends == "503 No healthy backends available"
AdminOk == "200 OK"

\* A request as handle_request looks at it: the path and the query of its URI. The
\* query is a sequence of pieces of text; "&" and "=" are pieces of their own, and
\* pieces that follow each other without one of them in between are one run of text
\* (<<"type", "=", "weighted", "xyz">> is type=weightedxyz). An URI without a query
\* has no pieces.
Request(path, query) == [path |-> path, query |-> query]
NoRequest == Request("", << >>)
OrdinaryRequest == Request("/", << >>)

\* str::contains
Contains(text, pattern) ==
    \E i \in 1..(Len(text) - Len(pattern) + 1) :
        SubSeq(text, i, i + Len(pattern) - 1) = pattern

\* str::split: the runs of text between the occurrences of sep (one run when there
\* is none, also for the empty text).
RECURSIVE Split(_, _)
Split(text, sep) ==
    IF \A i \in 1..Len(text) : text[i] # sep
    THEN <<text>>
    ELSE LET i == CHOOSE k \in 1..Len(text) :
                      text[k] = sep /\ \A j \in 1..(k - 1) : text[j] # sep
         IN  <<SubSeq(text, 1, i - 1)>> \o Split(SubSeq(text, i + 1, Len(text)), sep)

\* A run of text as one &str.
RECURSIVE Text(_)
Text(run) == IF run = << >> THEN "" ELSE Head(run) \o Text(Tail(run))

\* str::parse::<u32>() / parse::<u64>(): the number, or NotParsed. Numerals are the
\* numbers the requests of the model spell.
NotParsed == -1
Numerals == [x \in {"0", "1", "3"} |-> IF x = "0" THEN 0 ELSE IF x = "1" THEN 1 ELSE 3]
\* parse that reads text it cannot parse as 0.
parse_or_zero(text) == IF text \in DOMAIN Numerals THEN Numerals[text] ELSE 0
parse(text) == IF text \in DOMAIN Numerals THEN Numerals[text] ELSE NotParsed

\* format!("http://{}", backend) without the scheme.
AdminBackendUrlBare(backend) == backend
\* format!("http://{}", backend)
AdminBackendUrl(backend) == "http://" \o backend

NoAdmin == [op |-> "forward", arg |-> None, weight |-> 0]

\* The /admin/strategy branch: the first of the three texts the query contains.
AdminStrategy(query) ==
    IF Contains(query, <<"type", "=", "weighted">>)
    THEN [op |-> "set_strategy", arg |-> WeightedRoundRobin, weight |-> 0]
    ELSE IF Contains(query, <<"type", "=", "roundrobin">>)
    THEN [op |-> "set_strategy", arg |-> RoundRobin, weight |-> 0]
    ELSE IF Contains(query, <<"type", "=", "sticky">>)
    THEN [op |-> "set_strategy", arg |-> StickySession, weight |-> 0]
    ELSE NoAdmin

\* The loop over the parameters of /admin/weight: the last backend=.. and the last
\* weight=.. decide, and a weight that does not parse leaves none.
RECURSIVE WeightParams(_, _, _)
WeightParams(params, backend, weight) ==
    IF params = << >> THEN [backend |-> backend, weight |-> weight]
    ELSE LET kv == Split(Head(params), "=")
         IN  IF Len(kv) = 2 /\ Text(kv[1]) = "backend"
             THEN WeightParams(Tail(params), Text(kv[2]), weight)
             ELSE IF Len(kv) = 2 /\ Text(kv[1]) = "weight"
             THEN WeightParams(Tail(params), backend, parse(Text(kv[2])))
             ELSE WeightParams(Tail(params), backend, weight)

AdminWeight(query) ==
    LET r == WeightParams(Split(query, "&"), None, NotParsed)
    IN  IF query # << >> /\ r.backend # None /\ r.weight # NotParsed
        THEN [op |-> "set_weight", arg |-> AdminBackendUrl(r.backend), weight |-> r.weight]
        ELSE NoAdmin

\* The loop over the parameters of /admin/session-timeout: the first seconds=..
\* that parses decides.
RECURSIVE AdminSessionTimeoutParams(_)
AdminSessionTimeoutParams(params) ==
    IF params = << >> THEN NoAdmin
    ELSE LET kv == Split(Head(params), "=")
         IN  IF Len(kv) = 2 /\ Text(kv[1]) = "seconds" /\ parse(Text(kv[2])) # NotParsed
             THEN [op |-> "set_session_timeout", arg |-> parse(Text(kv[2])), weight |-> 0]
             ELSE AdminSessionTimeoutParams(Tail(params))

AdminSessionTimeout(query) ==
    IF query = << >> THEN NoAdmin ELSE AdminSessionTimeoutParams(Split(query, "&"))

\* What handle_request does with a request before it selects a backend: the admin
\* call it makes and answers, or none (the request goes on to be forwarded).
Dispatch(req) ==
    IF req.path = "/admin/strategy" THEN AdminStrategy(req.query)
    ELSE IF req.path = "/admin/weight" THEN AdminWeight(req.query)
    ELSE IF req.path = "/admin/session-timeout" THEN AdminSessionTimeout(req.query)
    ELSE NoAdmin

\* policy: the policy the backend was selected under; set_cookie: the response held
\* to answer carries Set-Cookie backend={url}.
Idle ==
    [pc |-> "idle", client_ip |-> NoClient, backend_url |-> None, reply |-> NoReply,
     req |-> NoRequest, policy |-> None, set_cookie |-> FALSE]
\* handle_request has returned Ok(response).
Replied(reply) == [Idle EXCEPT !.reply = reply]

\* ------------------------------------------------------------------- Init
InitFrom(pools) ==
    /\ \E self \in pools :
          /\ backends = self.backends
          /\ current_idx = self.current_idx
          /\ max_failures = self.max_failures
          /\ strategy = self.strategy
          /\ sessions = self.sessions
          /\ session_timeout = self.session_timeout
    /\ now = 0
    /\ last = Call("new", None, "call")
    /\ fails = [i \in 1..Len(backends) |-> NoFails]
    /\ hist = << >>
    /\ tracking = TRUE
    /\ window = << >>
    /\ undisturbed = TRUE
    /\ pinned = [c \in Clients |-> NoPin]
    /\ lock = Free
    /\ handlers = [h \in Handlers |-> Idle]
    /\ probe = Sleeping

Init == InitFrom(SmallPools)

\* ---------------------------------------------------------------- actions
\* lb.get_next_backend(client_ip), called by `by`
Select(client_ip, by) ==
    LET r == get_next_backend(Self, client_ip, now)
    IN  /\ WithinAcc(r.lb.backends)
        /\ Install(r.lb)
        /\ last' = Op("select", client_ip, by, NoHealth, r.ret, Algo(Self, client_ip, now),
                      r.examined)
        /\ UNCHANGED <<now, fails>>

\* lb.mark_unhealthy(url), called by `by` ("call", "forward" or "probe")
MarkUnhealthy(url, by) ==
    LET i == Find(backends, url)
    IN  /\ i # 0 => backends[i].health_status.failures < MaxFailCount
        /\ Install(mark_unhealthy(Self, url))
        /\ last' = Op("mark_unhealthy", url, by, HealthOf(backends, url), None, None, 0)
        /\ fails' = IF i # 0 THEN [fails EXCEPT ![i][by] = @ + 1] ELSE fails
        /\ UNCHANGED now

\* lb.mark_healthy(url), called by `by`
MarkHealthy(url, by) ==
    LET i == Find(backends, url)
    IN  /\ Install(mark_healthy(Self, url))
        /\ last' = Op("mark_healthy", url, by, HealthOf(backends, url), None, None, 0)
        /\ fails' = IF i # 0 THEN [fails EXCEPT ![i] = NoFails] ELSE fails
        /\ UNCHANGED now

\* lb.set_strategy(strategy)
SetStrategy(s) ==
    /\ Install(set_strategy(Self, s))
    /\ last' = Call("set_strategy", s, "call")
    /\ UNCHANGED <<now, fails>>

\* lb.set_weight(url, weight)
SetWeight(url, w) ==
    /\ Install(set_weight(Self, url, w))
    /\ last' = Call("set_weight", url, "call")
    /\ UNCHANGED <<now, fails>>

\* lb.set_session_timeout(timeout)
SetSessionTimeout(t) ==
    /\ Install(set_session_timeout(Self, t))
    /\ last' = Call("set_session_timeout", t, "call")
    /\ UNCHANGED <<now, fails>>

\* Any sequence of calls on one LoadBalancer.
Next ==
    /\ \/ \E c \in Clients \cup {NoClient} : Select(c, "call")
       \/ \E u \in Urls : MarkUnhealthy(u, "call")
       \/ \E u \in Urls : MarkHealthy(u, "call")
       \/ \E s \in LoadBalancingStrategy : SetStrategy(s)
       \/ \E u \in Urls, w \in WeightInputs : SetWeight(u, w)
       \/ \E t \in TimeoutInputs : SetSessionTimeout(t)
    /\ UNCHANGED <<tracevars, sysvars>>

Spec == Init /\ [][Next]_vars

\* ------------------------------------------------------- the traced pools
\* What a call adds to the record kept of the calls since construction.
Trace ==
    /\ pinned' = pinned
    /\ undisturbed' = (undisturbed /\ SameHealthAndWeight(backends, backends'))
    /\ window' =
          IF ~ SameHealthAndWeight(backends, backends') THEN << >>
          ELSE IF last'.op = "select" /\ last'.algo = "weighted"
          THEN IF AllHealthy(backends)
               THEN LastN(Append(window, last'.ret), TotalWeight(backends))
               ELSE << >>
          ELSE window
    /\ IF /\ tracking
          /\ \/ last'.op = "select" /\ NumSelects(hist) < MaxHist
             \/ last'.op = "mark_unhealthy" /\ hist = << >>
       THEN /\ tracking' = TRUE
            /\ hist' = Append(hist, <<last'.op,
                                      IF last'.op = "select" THEN last'.ret ELSE last'.arg>>)
       ELSE /\ tracking' = FALSE
            /\ hist' = << >>

TracedSelect == Select(NoClient, "call") /\ Trace /\ UNCHANGED sysvars
\* The traced pools take a backend down once; repeated failures are left to Spec.
TracedMarkUnhealthy(u) ==
    /\ HealthOf(backends, u) = Healthy
    /\ MarkUnhealthy(u, "call")
    /\ Trace
    /\ UNCHANGED sysvars
TracedMarkHealthy(u) == MarkHealthy(u, "call") /\ Trace /\ UNCHANGED sysvars

InitScenario == InitFrom(ScenarioPools)

NextScenario ==
    \/ TracedSelect
    \/ \E u \in Urls \ {"X"} : TracedMarkUnhealthy(u)
    \/ \E u \in Urls \ {"X"} : TracedMarkHealthy(u)

SpecScenario == InitScenario /\ [][NextScenario]_vars

\* ------------------------------------------------- the server of main.rs
\* main(): a weighted pool, switched to sticky sessions before serving. Two
\* backends of unequal weight stand for main's three.
SysPool == << <<"A", 2>>, <<"B", 1>> >>
main == set_strategy(new_weighted(SysPool, ConfiguredMaxFailures), StickySession)

\* extract_client_ip always finds the peer address, so every request has an identity
\* (one of Clients).

Tasks == Handlers \cup {Prober}
PcOf(t) == IF t = Prober THEN probe.pc ELSE handlers[t].pc
\* The positions at which a task awaits lb.lock().
AwaitsLock == {"admin", "select", "cookie", "mark_healthy", "mark_unhealthy", "snapshot"}

\* mark_unhealthy calls already decided on for url and not yet applied.
PendingFailures(url) ==
    Cardinality({h \in Handlers :
                    handlers[h].pc = "mark_unhealthy" /\ handlers[h].backend_url = url})
    + (IF probe.pc = "mark_unhealthy" /\ probe.backends[probe.i] = url THEN 1 ELSE 0)

MayFail(url) ==
    LET i == Find(backends, url)
    IN  i # 0 => backends[i].health_status.failures + PendingFailures(url) < MaxFailCount

\* What a call of a task adds to the record: whether any health has changed yet.
Disturb ==
    /\ undisturbed' = (undisturbed /\ SameHealthAndWeight(backends, backends'))
    /\ UNCHANGED <<hist, tracking, window, pinned>>

\* lb.lock().await returns: the task holds the guard.
Acquire(t) ==
    /\ lock = Free
    /\ PcOf(t) \in AwaitsLock
    /\ PcOf(t) = "select" =>
          WithinAcc(get_next_backend(Self, handlers[t].client_ip, now).lb.backends)
    /\ lock' = t
    /\ UNCHANGED <<lbvars, now, last, fails, tracevars, handlers, probe>>

\* service_fn: a request arrives on a connection (handle_request starts); it is an
\* admin call to make, or a request to forward.
Receive(h, c, req) ==
    /\ handlers[h].pc = "idle"
    /\ handlers' = [handlers EXCEPT ![h] =
                      [Idle EXCEPT !.pc = IF Dispatch(req).op = "forward" THEN "select"
                                          ELSE "admin",
                                   !.client_ip = c, !.req = req]]
    /\ UNCHANGED <<lbvars, now, last, fails, tracevars, lock, probe>>

\* A request that is not on an admin path.
Accept(h, c) == Receive(h, c, OrdinaryRequest)

\* let mut lb = lb.lock().await; lb.set_..(..); return Ok(Response::new(..))
HandlerAdmin(h) ==
    LET a == Dispatch(handlers[h].req)
    IN  /\ lock = h
        /\ handlers[h].pc = "admin"
        /\ \/ a.op = "set_strategy" /\ SetStrategy(a.arg)
           \/ a.op = "set_weight" /\ SetWeight(a.arg, a.weight)
           \/ a.op = "set_session_timeout" /\ SetSessionTimeout(a.arg)
        /\ lock' = Free
        /\ handlers' = [handlers EXCEPT ![h] = Replied(AdminOk)]
        /\ UNCHANGED <<tracevars, probe>>

\* HandlerSelect with the guard still alive while the request is forwarded.
HandlerSelectKeepLock(h) ==
    /\ lock = h
    /\ handlers[h].pc = "select"
    /\ Select(handlers[h].client_ip, "forward")
    /\ lock' = IF last'.ret = None THEN Free ELSE h
    /\ handlers' = [handlers EXCEPT ![h] =
                      IF last'.ret = None THEN Replied(NoHealthyBackends)
                      ELSE [@ EXCEPT !.pc = "forward", !.backend_url = last'.ret,
                                     !.policy = strategy]]
    /\ UNCHANGED <<tracevars, probe>>

\* let backend = { lb.lock().await.get_next_backend(client_ip) }; None is answered 503.
HandlerSelect(h) ==
    /\ lock = h
    /\ handlers[h].pc = "select"
    /\ Select(handlers[h].client_ip, "forward")
    /\ lock' = Free
    /\ handlers' = [handlers EXCEPT ![h] =
                      IF last'.ret = None THEN Replied(NoHealthyBackends)
                      ELSE [@ EXCEPT !.pc = "forward", !.backend_url = last'.ret,
                                     !.policy = strategy]]
    /\ Disturb
    /\ UNCHANGED probe

\* forward_request(..).await is Ok(response), whatever its status.
ForwardOk(h, status) ==
    /\ handlers[h].pc = "forward"
    /\ handlers' = [handlers EXCEPT ![h].pc = "cookie", ![h].reply = status]
    /\ UNCHANGED <<lbvars, now, last, fails, tracevars, lock, probe>>

\* forward_request(..).await is Err(e).
ForwardErr(h) ==
    /\ handlers[h].pc = "forward"
    /\ MayFail(handlers[h].backend_url)
    /\ handlers' = [handlers EXCEPT ![h].pc = "mark_unhealthy"]
    /\ UNCHANGED <<lbvars, now, last, fails, tracevars, lock, probe>>

\* HandlerCookie deciding by the policy the backend was selected under.
HandlerCookieAsSelected(h) ==
    /\ lock = h
    /\ handlers[h].pc = "cookie"
    /\ lock' = Free
    /\ handlers' = [handlers EXCEPT ![h].pc = "mark_healthy",
                                    ![h].set_cookie = (handlers[h].policy = StickySession)]
    /\ UNCHANGED <<lbvars, now, last, fails, tracevars, probe>>

\* if { lb.lock().await; matches!(lb.strategy, StickySession) } { insert SET_COOKIE }:
\* the guard is dropped at the end of the block.
HandlerCookie(h) ==
    /\ lock = h
    /\ handlers[h].pc = "cookie"
    /\ lock' = Free
    /\ handlers' = [handlers EXCEPT ![h].pc = "mark_healthy",
                                    ![h].set_cookie = (strategy = StickySession)]
    /\ UNCHANGED <<lbvars, now, last, fails, tracevars, probe>>

\* lb.lock().await.mark_healthy(&backend_url); Ok(response)
HandlerMarkHealthy(h) ==
    /\ lock = h
    /\ handlers[h].pc = "mark_healthy"
    /\ MarkHealthy(handlers[h].backend_url, "forward")
    /\ lock' = Free
    /\ handlers' = [handlers EXCEPT ![h] = Replied(handlers[h].reply)]
    /\ Disturb
    /\ UNCHANGED probe

\* HandlerMarkUnhealthy answering 503 without reporting the failure.
HandlerReplyUnavailable(h) ==
    /\ lock = h
    /\ handlers[h].pc = "mark_unhealthy"
    /\ lock' = Free
    /\ handlers' = [handlers EXCEPT ![h] = Replied(ServiceUnavailable)]
    /\ UNCHANGED <<lbvars, now, last, fails, tracevars, probe>>

\* lb.lock().await.mark_unhealthy(&backend_url); 503
HandlerMarkUnhealthy(h) ==
    /\ lock = h
    /\ handlers[h].pc = "mark_unhealthy"
    /\ MarkUnhealthy(handlers[h].backend_url, "forward")
    /\ lock' = Free
    /\ handlers' = [handlers EXCEPT ![h] = Replied(ServiceUnavailable)]
    /\ Disturb
    /\ UNCHANGED probe

\* health_check: sleep(interval).await returns.
ProbeWake ==
    /\ probe.pc = "sleep"
    /\ probe' = [probe EXCEPT !.pc = "snapshot"]
    /\ UNCHANGED <<lbvars, now, last, fails, tracevars, lock, handlers>>

\* let backends = { lb.lock().await.get_all_backends() };
ProbeSnapshot ==
    /\ lock = Prober
    /\ probe.pc = "snapshot"
    /\ lock' = Free
    /\ probe' = IF Len(backends) = 0
                THEN Sleeping
                ELSE [Sleeping EXCEPT !.pc = "request",
                                      !.backends = get_all_backends(Self), !.i = 1]
    /\ UNCHANGED <<lbvars, now, last, fails, tracevars, handlers>>

\* What client.request(req).await returns: Ok with a 2xx status, Ok with another
\* status, or Err.
ProbeOutcomes == {"2xx", "non2xx", "error"}

\* client.request(req).await returns.
ProbeResponse(outcome) ==
    /\ probe.pc = "request"
    /\ outcome # "2xx" => MayFail(probe.backends[probe.i])
    /\ probe' = [probe EXCEPT !.pc = IF outcome = "2xx" THEN "mark_healthy"
                                     ELSE "mark_unhealthy",
                              !.outcome = outcome, !.overdue = FALSE]
    /\ UNCHANGED <<lbvars, now, last, fails, tracevars, lock, handlers>>

\* The probe timeout passes and client.request(req).await has not returned: the
\* future is awaited without a timeout, the loop stays where it is.
ProbeNoResponse ==
    /\ probe.pc = "request"
    /\ ~ probe.overdue
    /\ probe' = [probe EXCEPT !.overdue = TRUE]
    /\ UNCHANGED <<lbvars, now, last, fails, tracevars, lock, handlers>>

\* The position of the loop after the health update of entry i of the snapshot.
ProbeAdvance ==
    IF probe.i = Len(probe.backends)
    THEN Sleeping
    ELSE [probe EXCEPT !.pc = "request", !.i = @ + 1, !.outcome = NoOutcome]

ProbeMarkHealthy ==
    /\ lock = Prober
    /\ probe.pc = "mark_healthy"
    /\ MarkHealthy(probe.backends[probe.i], "probe")
    /\ lock' = Free
    /\ probe' = ProbeAdvance
    /\ Disturb
    /\ UNCHANGED handlers

ProbeMarkUnhealthy ==
    /\ lock = Prober
    /\ probe.pc = "mark_unhealthy"
    /\ MarkUnhealthy(probe.backends[probe.i], "probe")
    /\ lock' = Free
    /\ probe' = ProbeAdvance
    /\ Disturb
    /\ UNCHANGED handlers

InitSys ==
    /\ InitFrom({main})

NextSys ==
    \/ \E t \in Tasks : Acquire(t)
    \/ \E h \in Handlers, c \in Clients : Accept(h, c)
    \/ \E h \in Handlers : HandlerSelect(h)
    \/ \E h \in Handlers, status \in BackendStatuses : ForwardOk(h, status)
    \/ \E h \in Handlers : ForwardErr(h)
    \/ \E h \in Handlers : HandlerCookie(h)
    \/ \E h \in Handlers : HandlerMarkHealthy(h)
    \/ \E h \in Handlers : HandlerMarkUnhealthy(h)
    \/ ProbeWake
    \/ ProbeSnapshot
    \/ \E o \in ProbeOutcomes : ProbeResponse(o)
    \/ ProbeMarkHealthy
    \/ ProbeMarkUnhealthy

SpecSys == InitSys /\ [][NextSys]_vars

\* The health_check task alone (no client traffic), with probes that may stay
\* without a response.
NextProbe ==
    \/ Acquire(Prober)
    \/ ProbeWake
    \/ ProbeSnapshot
    \/ \E o \in ProbeOutcomes : ProbeResponse(o)
    \/ ProbeNoResponse
    \/ ProbeMarkHealthy
    \/ ProbeMarkUnhealthy

SpecProbe == InitSys /\ [][NextProbe]_vars

\* ------------------------------------------------- the admin paths
\* main's pool under its URLs' scheme, as the admin paths address it.
AdminPool == << <<"http://a", 2>>, <<"http://b", 1>> >>

Param(key, value) == <<key, "=", value>>
\* Requests on the admin paths: well-formed ones, and ones with no value the
\* dispatcher could use.
AdminRequests ==
    {Request("/admin/strategy", Param("type", t)) :
        t \in {"roundrobin", "weighted", "sticky", "random"}}
    \cup {Request("/admin/strategy", <<"type", "=", "weighted", "xyz">>)}
    \cup {Request("/admin/weight", Param("backend", "a") \o <<"&">> \o Param("weight", w)) :
             w \in {"3", "x"}}
    \cup {Request("/admin/weight", Param("backend", "c") \o <<"&">> \o Param("weight", "3"))}
    \cup {Request("/admin/session-timeout", Param("seconds", v)) : v \in {"1", "x"}}

\* The request task serving ordinary requests and the one serving the admin paths.
\* The backends answer every forwarded request (failures are SpecSys's matter).
ClientTask == "h1"
AdminTask == "h2"

InitAdmin ==
    InitFrom({set_strategy(new_weighted(AdminPool, ConfiguredMaxFailures), StickySession)})

NextAdmin ==
    \/ \E h \in Handlers : Acquire(h)
    \/ \E c \in Clients : Accept(ClientTask, c)
    \/ \E c \in Clients, req \in AdminRequests : Receive(AdminTask, c, req)
    \/ \E h \in Handlers : HandlerAdmin(h)
    \/ \E h \in Handlers : HandlerSelect(h)
    \/ \E h \in Handlers, status \in BackendStatuses : ForwardOk(h, status)
    \/ \E h \in Handlers : HandlerCookie(h)
    \/ \E h \in Handlers : HandlerMarkHealthy(h)

SpecAdmin == InitAdmin /\ [][NextAdmin]_vars

\* ------------------------------------------------- the probe loop in time
\* The backend whose /health endpoint answers every probe with a 2xx status; the
\* other backend's endpoint is free to answer anything, or nothing.
Recovering == "B"

\* The probe in flight is the one sent to url.
ProbeIn(url) == probe.pc = "request" /\ probe.backends[probe.i] = url

RecoveringResponse == ProbeIn(Recovering) /\ ProbeResponse("2xx")
OtherResponse == \E o \in ProbeOutcomes : ~ ProbeIn(Recovering) /\ ProbeResponse(o)

\* A failure of the recovering backend is reported (by some request task, in one
\* locked call).
ReportFailure ==
    /\ lock = Free
    /\ MarkUnhealthy(Recovering, "call")
    /\ UNCHANGED <<tracevars, sysvars>>

NextProbeLive ==
    \/ Acquire(Prober)
    \/ ProbeWake
    \/ ProbeSnapshot
    \/ RecoveringResponse
    \/ OtherResponse
    \/ ProbeNoResponse
    \/ ProbeMarkHealthy
    \/ ProbeMarkUnhealthy
    \/ ReportFailure

\* What the runtime guarantees the health_check task: the sleep returns, the lock
\* is granted, locked calls complete. The recovering backend answers its probes;
\* nothing makes the other backend answer.
ProbeFairness ==
    /\ WF_vars(Acquire(Prober))
    /\ WF_vars(ProbeWake)
    /\ WF_vars(ProbeSnapshot)
    /\ WF_vars(RecoveringResponse)
    /\ WF_vars(ProbeMarkHealthy)
    /\ WF_vars(ProbeMarkUnhealthy)

SpecProbeLive == InitSys /\ [][NextProbeLive]_vars /\ ProbeFairness

\* ------------------------------------------------- sticky sessions in time
\* main()'s setup: a weighted pool switched to sticky sessions.
StickyPools ==
    {set_strategy(new_weighted(SysPool, ConfiguredMaxFailures), StickySession)}
StickyWeightInputs == {1, 2}
StickyTimeoutInputs == {1, DefaultSessionTimeout}

\* What a select adds to the record of each client's latest sticky select.
Pin(client_ip) ==
    IF strategy = StickySession /\ client_ip \in Clients
    THEN [pinned EXCEPT ![client_ip] =
             IF last'.ret = None THEN NoPin ELSE SessionInfo(last'.ret, now)]
    ELSE pinned

StickyFrame == UNCHANGED <<hist, tracking, window, undisturbed, sysvars>>

StickySelect(client_ip) ==
    /\ Select(client_ip, "call")
    /\ pinned' = Pin(client_ip)
    /\ StickyFrame

\* Time passes between two calls.
Tick ==
    /\ now < MaxTime
    /\ now' = now + 1
    /\ UNCHANGED <<lbvars, last, fails, tracevars, sysvars>>

InitSticky == InitFrom(StickyPools)

NextSticky ==
    \/ \E c \in StickyClients \cup {NoClient} : StickySelect(c)
    \/ \E u \in Urls \ {"X"} :
          /\ HealthOf(backends, u) = Healthy
          /\ MarkUnhealthy(u, "call")
          /\ UNCHANGED <<tracevars, sysvars>>
    \/ \E u \in Urls \ {"X"} :
          /\ HealthOf(backends, u) # Healthy
          /\ MarkHealthy(u, "call")
          /\ UNCHANGED <<tracevars, sysvars>>
    \/ \E u \in Urls \ {"X"}, w \in StickyWeightInputs :
          /\ backends[Find(backends, u)].weight # w
          /\ SetWeight(u, w)
          /\ UNCHANGED <<tracevars, sysvars>>
    \/ \E t \in StickyTimeoutInputs :
          /\ session_timeout # t
          /\ SetSessionTimeout(t)
          /\ UNCHANGED <<tracevars, sysvars>>
    \/ Tick

\* Health, weight and timeout calls that change nothing are left to Spec.
SpecSticky == InitSticky /\ [][NextSticky]_vars

\* ================================================================== claims
HealthyEntries(bs) == {i \in 1..Len(bs) : IsHealthy(bs[i])}
Weights(bs) == [i \in 1..Len(bs) |-> bs[i].weight]
\* new_weighted([A:5, B:3, C:2]) under the weighted policy.
IsMainPool ==
    Weights(backends) = <<WeightA, WeightB, WeightC>> /\ strategy = WeightedRoundRobin
\* new([A, B, C]) under plain round-robin.
IsPlainABC == Len(backends) = Len(<<"A", "B", "C">>) /\ strategy = RoundRobin
AllSelects(h) == \A k \in 1..Len(h) : h[k][1] = "select"
\* The k-th element of the endless repetition of the sequence cycle.
Cyclic(cycle, k) == cycle[((k - 1) % Len(cycle)) + 1]
Occurrences(h, url, lo, hi) == Cardinality({k \in lo..hi : h[k][2] = url})

C2_Literal ==
    (IsPlainABC /\ tracking /\ hist # << >>) =>
        IF hist[1][1] = "select"
        THEN \A k \in 1..Len(hist) : hist[k] = <<"select", Cyclic(<<"A", "B", "C">>, k)>>
        ELSE hist[1] = <<"mark_unhealthy", "B">> =>
                \A k \in 2..Len(hist) : hist[k] = <<"select", Cyclic(<<"A", "C">>, k - 1)>>

\* C2 (general part): a round-robin select returns the first Healthy entry at or
\* after the cursor, in cyclic pool order, and leaves the cursor just past it.
C2_Step ==
    (last'.op = "select" /\ last'.algo = "round_robin" /\ last'.ret # None) =>
        LET n == Len(backends)
            i == Find(backends, last'.ret)
            skipped == (i - 1 - current_idx + n) % n
        IN  /\ IsHealthy(backends[i])
            /\ \A e \in 0..(skipped - 1) : ~ IsHealthy(backends[((current_idx + e) % n) + 1])
            /\ current_idx' = i % n

\* C2: under round-robin successive selects return the Healthy backends in pool
\* order, cyclically, each once per revolution, skipping the Unhealthy ones.
C2_RoundRobinOrder == [][C2_Literal' /\ C2_Step]_vars

\* mark_unhealthy(B) on new([A,B,C]), then four selects: A, C, A, C.
C2_Witness ==
    /\ IsPlainABC /\ tracking
    /\ hist = << <<"mark_unhealthy", "B">>, <<"select", "A">>, <<"select", "C">>,
                 <<"select", "A">>, <<"select", "C">> >>

\* C3: a round-robin select examines at most N pool entries, returns None exactly
\* when no backend is Healthy, and returns the one Healthy backend when there is
\* just one (both of [A,B] down: None; after mark_healthy(A): A).
C3_RoundRobinNone ==
    (last.op = "select" /\ last.algo = "round_robin") =>
        /\ last.examined <= Len(backends)
        /\ last.ret = None <=> HealthyEntries(backends) = {}
        /\ \A i \in 1..Len(backends) :
              HealthyEntries(backends) = {i} => last.ret = backends[i].url

\* Both backends of [A,B] are down with different failure counts and the select
\* returned None after looking at both.
C3_Witness ==
    /\ last.op = "select" /\ last.algo = "round_robin" /\ last.ret = None
    /\ last.examined = Len(backends)
    /\ Weights(backends) = <<DefaultWeight, DefaultWeight>>
    /\ backends[1].health_status = Unhealthy(1)
    /\ backends[2].health_status = Unhealthy(MaxFailCount)

\* Every backend occurs in the window as often as its weight says.
WindowFair ==
    \A i \in 1..Len(backends) :
        Cardinality({k \in 1..Len(window) : window[k] = backends[i].url})
            = backends[i].weight

\* C4 as claimed: on an all-Healthy pool every window of T weighted selects with
\* no health or weight change inside it holds backend i exactly w_i times.
C4_Original ==
    (AllHealthy(backends) /\ TotalWeight(backends) > 0
        /\ Len(window) = TotalWeight(backends)) => WindowFair

\* C4 amended: the same, on a pool whose health and weights have not changed
\* since construction (the accumulators started from zero on this pool).
C4_Amended ==
    (undisturbed /\ TotalWeight(backends) > 0
        /\ Len(window) = TotalWeight(backends)) => WindowFair

\* A full window on [A:5,B:3,C:2] that is not aligned to the start: it begins
\* with the second pick.
C4_Witness ==
    /\ undisturbed /\ IsMainPool /\ ~ tracking
    /\ Len(window) = TotalWeight(backends)
    /\ window[1] = "B"

\* The sequence the specification gives for [A:5,B:3,C:2] and the one the smooth
\* weighted round-robin produces.
SpecSequence == <<"A", "A", "B", "A", "C", "A", "B", "A", "B", "C">>
SmoothSequence == <<"A", "B", "C", "A", "A", "B", "A", "C", "B", "A">>

\* C5 as claimed: ten selects on [A:5,B:3,C:2] from construction return
\* A,A,B,A,C,A,B,A,B,C.
C5_Original ==
    (IsMainPool /\ tracking /\ AllSelects(hist)) =>
        \A k \in 1..Len(hist) : k <= Len(SpecSequence) => hist[k][2] = SpecSequence[k]

\* C5 amended: they return A,B,C,A,A,B,A,C,B,A (and repeat from there).
C5_Amended ==
    (IsMainPool /\ tracking /\ AllSelects(hist)) =>
        \A k \in 1..Len(hist) : hist[k][2] = Cyclic(SmoothSequence, k)

C5_Witness ==
    IsMainPool /\ tracking /\ AllSelects(hist) /\ Len(hist) = Len(SmoothSequence)

\* The state follows a weighted select that returned a backend, and the step is
\* the next weighted select.
ConsecutiveWeighted ==
    /\ last.op = "select" /\ last.algo = "weighted" /\ last.ret # None
    /\ last'.op = "select" /\ last'.algo = "weighted"

\* C6 as claimed: if after i's win another Healthy j has current_weight_j +
\* weight_j >= i's post-subtraction current_weight, the next weighted select does
\* not return i.
C6_Original ==
    [][LET i == Find(backends, last.ret)
       IN  (/\ ConsecutiveWeighted
            /\ \E j \in HealthyEntries(backends) \ {i} :
                  backends[j].current_weight + backends[j].weight
                      >= backends[i].current_weight)
           => last'.ret # last.ret]_vars

\* C6 amended: the next weighted select does not return i when another Healthy j
\* has current_weight_j + weight_j above current_weight_i + weight_i, or equal to
\* it with j earlier in the pool.
C6_Amended ==
    [][LET i == Find(backends, last.ret)
       IN  (/\ ConsecutiveWeighted
            /\ \E j \in HealthyEntries(backends) \ {i} :
                  \/ backends[j].current_weight + backends[j].weight
                        > backends[i].current_weight + backends[i].weight
                  \/ /\ backends[j].current_weight + backends[j].weight
                           = backends[i].current_weight + backends[i].weight
                     /\ j < i)
           => last'.ret # last.ret]_vars

\* On [A:5,B:3,C:2] A won, B then stood at 6 against A's 0, and B won next.
C6_Witness ==
    IsMainPool /\ tracking /\ hist = << <<"select", "A">>, <<"select", "B">> >>

\* C7: on [A:5,B:3,C:2] after mark_unhealthy(B) from construction the selects
\* return only A and C, the next seven hold A five times and C twice, and B's
\* current_weight stays what it was.
C7_SkipUnhealthy ==
    (IsMainPool /\ tracking /\ hist # << >> /\ hist[1] = <<"mark_unhealthy", "B">>) =>
        /\ \A k \in 2..Len(hist) : hist[k][2] \in {"A", "C"}
        /\ backends[2].current_weight = 0
        /\ Len(hist) >= 1 + WeightA + WeightC =>
              /\ Occurrences(hist, "A", 2, 1 + WeightA + WeightC) = WeightA
              /\ Occurrences(hist, "C", 2, 1 + WeightA + WeightC) = WeightC

C7_Witness ==
    /\ IsMainPool /\ tracking /\ Len(hist) = 1 + WeightA + WeightC
    /\ hist[1] = <<"mark_unhealthy", "B">>

\* C8 as claimed: a weighted selection never returns a backend whose weight is 0.
C8_ZeroWeightNeverSelected ==
    (last.op = "select" /\ last.algo = "weighted" /\ last.ret # None) =>
        backends[Find(backends, last.ret)].weight # 0

FailCount(i) == fails[i].call + fails[i].forward + fails[i].probe

\* C9: N mark_unhealthy(u) calls since u was last Healthy, from request handlers
\* and the probe loop in any interleaving, leave u in Unhealthy(N).
C9_NoLostUpdates ==
    \A i \in 1..Len(backends) :
        backends[i].health_status =
            IF FailCount(i) = 0 THEN Healthy ELSE Unhealthy(FailCount(i))

\* One failure reported by a request handler and one by the probe loop.
C9_Witness ==
    \E i \in 1..Len(backends) :
        /\ fails[i].forward = 1 /\ fails[i].probe = 1
        /\ backends[i].health_status = Unhealthy(fails[i].forward + fails[i].probe)

\* C10: one mark_healthy(u) takes u from any Unhealthy(n) to Healthy, whatever n
\* and max_failures, and changes nothing when u is Healthy; the very next select
\* treats u as a candidate: round-robin returns a backend, and u itself when the
\* cursor is on it, and the weighted pass adds u's weight to its accumulator.
C10_SingleStepRecovery ==
    [][/\ last'.op = "mark_healthy" =>
             LET i == Find(backends, last'.arg)
             IN  i # 0 => /\ IsHealthy(backends'[i])
                          /\ IsHealthy(backends[i]) => lbvars' = lbvars
       /\ (last.op = "mark_healthy" /\ Find(backends, last.arg) # 0
              /\ last'.op = "select") =>
             LET i == Find(backends, last.arg)
             IN  /\ last'.algo = "round_robin" =>
                      /\ last'.ret # None
                      /\ current_idx = i - 1 => last'.ret = last.arg
                 /\ last'.algo = "weighted" =>
                      \/ last'.ret = last.arg
                      \/ backends'[i].current_weight
                            = backends[i].current_weight + backends[i].weight]_vars

\* mark_healthy found the backend at a failure count above max_failures.
C10_Witness ==
    /\ last.op = "mark_healthy"
    /\ last.was = Unhealthy(MaxFailCount)
    /\ MaxFailCount > max_failures
    /\ HealthOf(backends, last.arg) = Healthy

\* The step is a sticky select for client c (a Tick leaves `last` alone but moves
\* the clock).
StickySelectStep(c) ==
    /\ strategy = StickySession
    /\ now' = now
    /\ last'.op = "select" /\ last'.arg = c

\* Client c's latest sticky select returned a backend that is Healthy now, less
\* than session_timeout seconds ago.
PinnedFresh(c) ==
    /\ pinned[c].backend_url # None
    /\ HealthOf(backends, pinned[c].backend_url) = Healthy
    /\ now - pinned[c].last_seen < session_timeout * TicksPerSec

\* C11 as claimed: a sticky select(c) made while the backend u that c's previous
\* select returned is Healthy, less than session_timeout seconds after that
\* select, returns u and sets the entry's last_seen to the time of the call.
C11_Original ==
    [][\A c \in Clients :
          (StickySelectStep(c) /\ PinnedFresh(c)) =>
              /\ last'.ret = pinned[c].backend_url
              /\ sessions'[c] = SessionInfo(pinned[c].backend_url, now)]_vars

\* C11 amended: the same, provided c's entry is still in the table (no sweep has
\* removed it under a shorter timeout); the entry is the record of c's previous
\* select, whatever other clients, weights and other backends did.
C11_Amended ==
    [][\A c \in Clients :
          /\ c \in DOMAIN sessions => sessions[c] = pinned[c]
          /\ (StickySelectStep(c) /\ PinnedFresh(c) /\ c \in DOMAIN sessions) =>
                 /\ last'.ret = pinned[c].backend_url
                 /\ sessions'[c] = SessionInfo(pinned[c].backend_url, now)]_vars

\* A hit for c1 refreshed an entry made earlier, half a second or more ago, while
\* c2 is pinned to the other backend and the pinned backend's weight was changed.
C11_Witness ==
    /\ last.op = "select" /\ last.arg = "c1" /\ last.algo = "session"
    /\ now > 0 /\ sessions["c1"].last_seen = now
    /\ "c2" \in DOMAIN sessions
    /\ sessions["c2"].backend_url # sessions["c1"].backend_url
    /\ Weights(backends) # Weights(main.backends)

\* C12 as claimed: when the backend u that c's previous select returned is
\* Unhealthy and another backend is Healthy, the sticky select(c) returns a Healthy
\* backend v other than u and the table then maps c to v; and a select(c) whose
\* entry is live and names a Healthy backend returns that backend, whether or not
\* the earlier one has recovered.
C12_StickyFailover ==
    [][\A c \in Clients :
          StickySelectStep(c) =>
              /\ (/\ pinned[c].backend_url # None
                  /\ HealthOf(backends, pinned[c].backend_url) # Healthy
                  /\ HealthyEntries(backends) # {}) =>
                     /\ last'.ret # None
                     /\ last'.ret # pinned[c].backend_url
                     /\ HealthOf(backends, last'.ret) = Healthy
                     /\ c \in DOMAIN sessions'
                     /\ sessions'[c].backend_url = last'.ret
              /\ (/\ c \in DOMAIN sessions
                  /\ HealthOf(backends, sessions[c].backend_url) = Healthy
                  /\ now - sessions[c].last_seen < session_timeout * TicksPerSec) =>
                     last'.ret = sessions[c].backend_url]_vars

\* The entry has reached the session timeout in effect now.
Expired(info) == now - info.last_seen >= session_timeout * TicksPerSec

\* C13: a sticky select with a client identity c removes every entry, of any
\* client, whose age has reached the timeout in effect at that call and keeps the
\* other clients' younger entries as they are; no entry that old is left after the
\* call; and if c's own entry had expired, c gets what a fresh weighted pick on the
\* pool gives.
C13_SessionExpiry ==
    [][\A c \in StickyClients :
          StickySelectStep(c) =>
              /\ \A x \in DOMAIN sessions \ {c} :
                    IF Expired(sessions[x])
                    THEN x \notin DOMAIN sessions'
                    ELSE x \in DOMAIN sessions' /\ sessions'[x] = sessions[x]
              /\ \A x \in DOMAIN sessions' :
                    /\ x = c => sessions'[x].last_seen = now
                    /\ x # c => now - sessions'[x].last_seen < session_timeout * TicksPerSec
              /\ (c \in DOMAIN sessions /\ Expired(sessions[c])) =>
                    /\ last'.ret = get_next_backend_weighted(Self).ret
                    /\ backends' = get_next_backend_weighted(Self).lb.backends]_vars

\* c2's select swept the entry of c1, whose latest select had returned a backend
\* a full timeout earlier.
C13_Witness ==
    /\ last.op = "select" /\ last.arg = "c2"
    /\ pinned["c1"].backend_url # None
    /\ now - pinned["c1"].last_seen >= session_timeout * TicksPerSec
    /\ "c1" \notin DOMAIN sessions

\* C14: set_strategy changes the policy and nothing else; the next select runs
\* the policy in force: round-robin moves only the cursor, the weighted pick and
\* the sticky policy leave the cursor alone; under round-robin and weighted a
\* select leaves the session table as it is and returns what it would return
\* with an empty table.
C14_PolicyOrthogonality ==
    [][/\ last'.op = "set_strategy" =>
             /\ strategy' = last'.arg
             /\ <<backends, current_idx, max_failures, sessions, session_timeout>>'
                   = <<backends, current_idx, max_failures, sessions, session_timeout>>
       /\ (last'.op = "select" /\ strategy = RoundRobin) =>
             /\ backends' = backends /\ sessions' = sessions
             /\ last'.ret # None => current_idx' = Find(backends, last'.ret) % Len(backends)
       /\ (last'.op = "select" /\ strategy = WeightedRoundRobin) =>
             /\ current_idx' = current_idx /\ sessions' = sessions
             /\ last'.ret = get_next_backend_weighted(Self).ret
       /\ (last'.op = "select" /\ strategy = StickySession) =>
             current_idx' = current_idx
       /\ (last'.op = "select" /\ strategy # StickySession) =>
             last'.ret = get_next_backend([Self EXCEPT !.sessions = << >>],
                                          last'.arg, now).ret]_vars

\* set_strategy(RoundRobin) found the cursor advanced, an accumulator off zero
\* and a session in the table, and left them so.
C14_Witness ==
    /\ last.op = "set_strategy" /\ last.arg = RoundRobin /\ strategy = RoundRobin
    /\ current_idx # 0
    /\ \E i \in 1..Len(backends) : backends[i].current_weight # 0
    /\ DOMAIN sessions # {}

\* C15: on a pool without backends every select returns None, under every policy
\* and with or without a client identity, and every other call completes leaving
\* the pool empty and the session table without entries.
C15_EmptyPool ==
    [][Len(backends) = 0 =>
          /\ backends' = << >>
          /\ DOMAIN sessions' = {}
          /\ last'.op \in {"select", "set_strategy", "set_weight", "set_session_timeout",
                            "mark_healthy", "mark_unhealthy"}
          /\ last'.op = "select" => last'.ret = None]_vars

\* A sticky select with a client identity on the empty pool.
C15_Witness ==
    /\ Len(backends) = 0
    /\ last.op = "select" /\ last.arg \in Clients /\ strategy = StickySession
    /\ last.ret = None

SameHealth(bs1, bs2) ==
    \A i \in 1..Len(bs1) : bs1[i].health_status = bs2[i].health_status

\* The request of task h completes in this step.
Completes(h) == handlers[h].pc # "idle" /\ handlers'[h].pc = "idle"

\* C16: a request whose select returned a backend keeps that backend to its end;
\* its forward ends in transport success (any status) or failure; success ends
\* with mark_healthy on that backend and the backend's response, failure with
\* mark_unhealthy on it and 503 Service Unavailable; a select that returns None is
\* answered 503 No healthy backends at once, without forward or health change.
C16_OutcomeFeedback ==
    [][\A h \in Handlers :
          /\ (handlers[h].pc = "select" /\ handlers'[h] # handlers[h]) =>
                /\ last'.op = "select" /\ last'.by = "forward"
                /\ IF last'.ret = None
                   THEN /\ handlers'[h] = Replied(NoHealthyBackends)
                        /\ SameHealth(backends, backends')
                   ELSE /\ handlers'[h].pc = "forward"
                        /\ handlers'[h].backend_url = last'.ret
          /\ (handlers[h].pc \in {"forward", "cookie"} /\ handlers'[h] # handlers[h]) =>
                /\ handlers'[h].backend_url = handlers[h].backend_url
                /\ SameHealth(backends, backends')
                /\ \/ /\ handlers'[h].pc = "mark_healthy"
                      /\ handlers'[h].reply = handlers[h].reply
                   \/ /\ handlers[h].pc = "forward"
                      /\ \/ /\ handlers'[h].pc = "cookie"
                            /\ handlers'[h].reply \in BackendStatuses
                         \/ handlers'[h].pc = "mark_unhealthy"
          /\ (handlers[h].pc = "mark_healthy" /\ handlers'[h] # handlers[h]) =>
                /\ handlers'[h] = Replied(handlers[h].reply)
                /\ handlers[h].reply \in BackendStatuses
                /\ last'.op = "mark_healthy" /\ last'.arg = handlers[h].backend_url
                /\ HealthOf(backends', handlers[h].backend_url) = Healthy
          /\ (handlers[h].pc = "mark_unhealthy" /\ handlers'[h] # handlers[h]) =>
                /\ handlers'[h] = Replied(ServiceUnavailable)
                /\ last'.op = "mark_unhealthy" /\ last'.arg = handlers[h].backend_url
                /\ HealthOf(backends', handlers[h].backend_url) =
                      Unhealthy(HealthOf(backends, handlers[h].backend_url).failures + 1)
          /\ Completes(h) => handlers[h].pc \in {"select", "mark_healthy", "mark_unhealthy"}]_vars

\* A forward that came back with a 500 status marked its Unhealthy backend Healthy.
C16_Witness ==
    \E h \in Handlers :
        /\ handlers[h] = Replied("500 Internal Server Error")
        /\ last.op = "mark_healthy" /\ last.by = "forward"
        /\ last.was.tag = "Unhealthy"

\* C17 as claimed: a probe in flight ends, within the probe timeout, in exactly one
\* health update on its URL: mark_healthy on a 2xx response, mark_unhealthy on a
\* non-2xx response, on a transport failure and when the timeout passes without a
\* response; after the update the loop is at the next URL of the snapshot (or back
\* in its sleep after the last one).
C17_ProbeOutcomeMapping ==
    [][/\ (probe.pc = "request" /\ probe' # probe) =>
             /\ probe'.outcome # NoOutcome
             /\ probe'.pc = IF probe'.outcome = "2xx" THEN "mark_healthy"
                            ELSE "mark_unhealthy"
             /\ probe'.i = probe.i /\ probe'.backends = probe.backends
             /\ SameHealth(backends, backends')
       /\ (probe.pc \in {"mark_healthy", "mark_unhealthy"} /\ probe' # probe) =>
             /\ last'.op = probe.pc /\ last'.by = "probe"
             /\ last'.arg = probe.backends[probe.i]
             /\ probe' = IF probe.i = Len(probe.backends) THEN Sleeping
                         ELSE [Sleeping EXCEPT !.pc = "request",
                                               !.backends = probe.backends,
                                               !.i = probe.i + 1]]_vars

\* A pool as new or new_weighted returns it: every backend Healthy, accumulator 0.
CreatedHealthy(self) ==
    \A i \in 1..Len(self.backends) :
        /\ self.backends[i].health_status = Healthy
        /\ self.backends[i].current_weight = 0

\* C18: new and new_weighted create every backend Healthy with current_weight 0, and
\* in every reachable state each backend is Healthy, or Unhealthy(n) with n >= 1 and
\* n the number of mark_unhealthy calls on it since its last mark_healthy (or since
\* creation).
C18_HealthWellFormed ==
    /\ \A urls \in {<< >>, <<"A">>, <<"A", "B">>} :
          CreatedHealthy(new(urls, LowMaxFailures))
    /\ \A pool \in {<< >>, SysPool, << <<"A", 0>>, <<"B", WeightA>> >>} :
          CreatedHealthy(new_weighted(pool, ConfiguredMaxFailures))
    /\ last.op = "new" => CreatedHealthy(Self)
    /\ \A i \in 1..Len(backends) :
          \/ backends[i].health_status = Healthy /\ FailCount(i) = 0
          \/ /\ backends[i].health_status.tag = "Unhealthy"
             /\ backends[i].health_status.failures >= 1
             /\ backends[i].health_status.failures = FailCount(i)

\* A second failure in a row of one backend was counted while the other backend is
\* Healthy.
C18_Witness ==
    /\ last.op = "mark_unhealthy"
    /\ last.was = Unhealthy(1)
    /\ HealthOf(backends, last.arg) = Unhealthy(2)
    /\ \E i \in 1..Len(backends) :
          backends[i].url # last.arg /\ backends[i].health_status = Healthy

\* The call a task makes with the guard in hand can be made (it waits for nothing).
CanStep(t) ==
    LET url == IF t = Prober THEN probe.backends[probe.i] ELSE handlers[t].backend_url
    IN  /\ PcOf(t) = "select" =>
              WithinAcc(get_next_backend(Self, handlers[t].client_ip, now).lb.backends)
        /\ PcOf(t) = "mark_unhealthy" =>
              (Find(backends, url) # 0 =>
                  backends[Find(backends, url)].health_status.failures < MaxFailCount)

\* The positions at which a task is suspended on I/O or on the interval sleep.
Suspended == {"forward", "request", "sleep"}

\* C19: the pool (backends, sessions, policy, cursor, accumulators) is read and
\* written only by the task holding the one pool lock, which gives it up in the same
\* step; the holder is never in a forward request, a probe request or the interval
\* sleep, and its call waits for nothing, so a request or probe that never
\* completes never keeps another task from selecting or updating health.
C19_LockDiscipline ==
    /\ [](/\ lock \in Tasks \cup {Free}
          /\ \A t \in Tasks : lock = t =>
                /\ PcOf(t) \in AwaitsLock
                /\ PcOf(t) \notin Suspended
                /\ CanStep(t))
    /\ [][/\ (lbvars' # lbvars \/ last' # last \/ fails' # fails) =>
                /\ lock \in Tasks /\ lock' = Free
                /\ last'.by = IF lock = Prober THEN "probe" ELSE "forward"
          /\ \A t \in Tasks :
                (PcOf(t) \in AwaitsLock /\ PcOf(t)' # PcOf(t)) =>
                    lock = t /\ lock' = Free
          /\ lock' # lock => lock = Free \/ lock' = Free]_vars

\* One handler selects under the lock while the other handler's forward request and
\* a probe request are in progress.
C19_Witness ==
    /\ \E h \in Handlers : lock = h /\ handlers[h].pc = "select"
    /\ \E h \in Handlers : handlers[h].pc = "forward"
    /\ probe.pc = "request"

\* The request task has been given a backend and has not answered yet.
InFlight(h) == handlers[h].pc \in {"forward", "cookie", "mark_healthy", "mark_unhealthy"}

C21_ProbeRecoveryLive ==
    (HealthOf(backends, Recovering) # Healthy) ~> (HealthOf(backends, Recovering) = Healthy)

\* C22: mark_healthy(u) and mark_unhealthy(u) change only the health field of the
\* backend whose URL is u: every accumulator (u's too, also when u goes from
\* Unhealthy to Healthy), every weight, the cursor, the policy, the session table
\* and all other backends stay as they are, and nothing changes when u is not in
\* the pool.
C22_HealthFrame ==
    [][last'.op \in {"mark_healthy", "mark_unhealthy"} =>
          LET i == Find(backends, last'.arg)
          IN  /\ <<current_idx, max_failures, strategy, sessions, session_timeout>>'
                    = <<current_idx, max_failures, strategy, sessions, session_timeout>>
              /\ Len(backends') = Len(backends)
              /\ \A j \in 1..Len(backends) :
                    /\ backends'[j].url = backends[j].url
                    /\ backends'[j].weight = backends[j].weight
                    /\ backends'[j].current_weight = backends[j].current_weight
                    /\ j # i => backends'[j].health_status = backends[j].health_status
              /\ i = 0 => lbvars' = lbvars]_vars

\* mark_healthy brought back a backend whose accumulator was off zero, with a
\* session in the table, and left both as they were.
C22_Witness ==
    /\ last.op = "mark_healthy"
    /\ last.was.tag = "Unhealthy"
    /\ HealthOf(backends, last.arg) = Healthy
    /\ backends[Find(backends, last.arg)].current_weight # 0
    /\ DOMAIN sessions # {}

\* The request is /admin/weight?backend={host_port}&weight={w}.
IsSetWeight(req, host_port, w) ==
    req = Request("/admin/weight",
                  Param("backend", host_port) \o <<"&">> \o Param("weight", w))

\* C23: the admin operation with (host_port, w) sets weight to w on the backend
\* whose URL is exactly http://{host_port} and changes nothing else (no
\* accumulator, health, cursor, session or policy); when no backend has that URL
\* the whole state is unchanged.
C23_SetWeightFrame ==
    [][\A h \in Handlers, host_port \in {"a", "b", "c"}, w \in DOMAIN Numerals :
          (/\ handlers[h].pc = "admin" /\ handlers'[h].pc = "idle"
           /\ IsSetWeight(handlers[h].req, host_port, w)) =>
              /\ <<current_idx, max_failures, strategy, sessions, session_timeout>>'
                    = <<current_idx, max_failures, strategy, sessions, session_timeout>>
              /\ Len(backends') = Len(backends)
              /\ \A j \in 1..Len(backends) :
                    backends'[j] = IF backends[j].url = "http://" \o host_port
                                   THEN [backends[j] EXCEPT !.weight = Numerals[w]]
                                   ELSE backends[j]
              /\ (\A j \in 1..Len(backends) : backends[j].url # "http://" \o host_port)
                    => lbvars' = lbvars
              /\ handlers'[h].reply = AdminOk]_vars

\* /admin/weight?backend=a&weight=3 has been answered: http://a has weight 3, its
\* accumulator is off zero and a session is in the table.
C23_Witness ==
    /\ last.op = "set_weight" /\ last.arg = "http://a"
    /\ handlers[AdminTask].reply = AdminOk
    /\ backends[1].url = "http://a" /\ backends[1].weight = 3
    /\ backends[1].current_weight # 0
    /\ DOMAIN sessions # {}

\* The key=value parameters of a query, as <<key, value>> pairs of text.
Params(query) ==
    LET ps == Split(query, "&")
    IN  {<<Text(Split(ps[i], "=")[1]), Text(Split(ps[i], "=")[2])>> :
            i \in {k \in 1..Len(ps) : Len(Split(ps[k], "=")) = 2}}

\* A request on an admin path whose query has nothing for the operation: no
\* type=roundrobin|weighted|sticky text, no backend or no weight that is a number,
\* no seconds that is a number.
Misuse(req) ==
    \/ /\ req.path = "/admin/strategy"
       /\ \A t \in {"roundrobin", "weighted", "sticky"} :
             ~ Contains(req.query, Param("type", t))
    \/ /\ req.path = "/admin/weight"
       /\ \/ \A kv \in Params(req.query) : kv[1] # "backend"
          \/ \A kv \in Params(req.query) :
                kv[1] = "weight" => kv[2] \notin DOMAIN Numerals
    \/ /\ req.path = "/admin/session-timeout"
       /\ \A kv \in Params(req.query) :
             kv[1] = "seconds" => kv[2] \notin DOMAIN Numerals

SameWeights(bs1, bs2) == \A i \in 1..Len(bs1) : bs1[i].weight = bs2[i].weight

C25_SessionWrites ==
    [][/\ sessions' # sessions =>
             /\ last'.op = "select"
             /\ strategy = StickySession
             /\ last'.arg # NoClient
       /\ (last'.op = "select" /\ strategy = StickySession /\ last'.arg = NoClient) =>
             /\ sessions' = sessions
             /\ current_idx' = current_idx
             /\ backends' = get_next_backend_weighted(Self).lb.backends
             /\ last'.ret = get_next_backend_weighted(Self).ret]_vars

\* A sticky select without identity returned a backend and left alone a session
\* that is past its timeout.
C25_Witness ==
    /\ last.op = "select" /\ last.arg = NoClient /\ last.ret # None
    /\ strategy = StickySession
    /\ \E c \in DOMAIN sessions : Expired(sessions[c])

\* C26 as claimed: a weighted pick (also the sticky policy's fresh pick) returns
\* None only when no backend is Healthy; with at least one Healthy backend it
\* returns the URL of a Healthy backend, whatever the accumulators have become
\* through earlier selections and health changes.
C26_WeightedNoneOnlyWhenNoneHealthy ==
    (last.op = "select" /\ last.algo = "weighted") =>
        /\ last.ret = None <=> HealthyEntries(backends) = {}
        /\ last.ret # None => HealthOf(backends, last.ret) = Healthy

RECURSIVE SumCurrentWeight(_)
SumCurrentWeight(bs) ==
    IF bs = << >> THEN 0 ELSE Head(bs).current_weight + SumCurrentWeight(Tail(bs))

\* C27 as claimed: in every reachable state the accumulators of all backends sum
\* to 0 (a weighted selection adds each Healthy backend's weight and takes their
\* total from the winner), across selections and health changes in any order.
C27_AccumulatorConservation == SumCurrentWeight(backends) = 0

\* C28 as claimed: a select that returns None leaves the round-robin cursor and
\* every backend's accumulator exactly as they were before the call, under every
\* policy.
C28_NoneHasNoSideEffect ==
    [][(last'.op = "select" /\ last'.ret = None) =>
          /\ current_idx' = current_idx
          /\ \A i \in 1..Len(backends) :
                backends'[i].current_weight = backends[i].current_weight]_vars

\* C29 as claimed: the response held to answer carries Set-Cookie backend={url}
\* if and only if its backend was selected under the sticky policy, also when a
\* set-policy request was processed between the selection and the backend's
\* response.
C29_Original ==
    \A h \in Handlers :
        handlers[h].pc = "mark_healthy" =>
            (handlers[h].set_cookie <=> handlers[h].policy = StickySession)

\* C29 amended: the response carries Set-Cookie backend={url} if and only if the
\* policy is sticky when the task reads it, under a lock of its own, after the
\* backend's response has arrived; once decided the header stays until the answer,
\* and a request that has no backend response yet carries none.
C29_Amended ==
    [][\A h \in Handlers :
          /\ (handlers[h].pc = "cookie" /\ handlers'[h].pc # "cookie") =>
                /\ handlers'[h].pc = "mark_healthy"
                /\ handlers'[h].set_cookie = (strategy = StickySession)
                /\ strategy' = strategy
          /\ (handlers[h].pc = "mark_healthy" /\ handlers'[h].pc = "mark_healthy") =>
                handlers'[h].set_cookie = handlers[h].set_cookie
          /\ handlers'[h].pc \in {"admin", "select", "forward", "cookie"} =>
                ~ handlers'[h].set_cookie]_vars

\* The backend was selected under round-robin, the policy was set to sticky while
\* the request was with the backend, and the response got the cookie.
C29_Witness ==
    \E h \in Handlers :
        /\ handlers[h].pc = "mark_healthy"
        /\ handlers[h].policy = RoundRobin
        /\ handlers[h].set_cookie
        /\ strategy = StickySession

====
